---- MODULE Spec2Model ----
(***************************************************************************)
(* A model of the 6502 cross-assembler: Lexer (lexer.rs), Parser           *)
(* (parser.rs), the operand model (ast.rs), Linker (linker.rs) and the     *)
(* code generator Asm (asm.rs).                                            *)
(*                                                                         *)
(* Characters are one-character strings; "nl", "sp" and "tab" stand for    *)
(* '\n', ' ' and '\t'.  A source text is a sequence of characters and      *)
(* Lexer.position is the 0-based index of the Rust code.                   *)
(*                                                                         *)
(* Rust's integer arithmetic depends on the build profile: with overflow   *)
(* checks (debug, the profile of `cargo build` and `cargo test`) an        *)
(* overflowing +, - or abs panics, without them (release) it wraps.  The   *)
(* variable overflow_checks is the profile of the build under study.       *)
(***************************************************************************)
EXTENDS Integers, Sequences, FiniteSets, TLC

VARIABLES
    overflow_checks,  \* build profile: TRUE = arithmetic overflow panics
    units,            \* the pieces the source text was assembled from
    text,             \* Lexer.text
    position,         \* Lexer.position
    ret,              \* the Result of the last get_next_token call
    tokens,           \* the Ok tokens returned so far, in call order
    call_pos,         \* Lexer.position at the start of the last call
    current_token,    \* Parser.current_token
    statements,       \* the Vec<Ast> under construction, then the parsed Ast
    origin,           \* the origin handed to Asm::new
    labels_indexes,   \* Linker.labels_indexes
    linker_pc,        \* Linker.program_counter
    asm_pc,           \* Asm.program_counter
    program,          \* Asm.program
    phase,            \* where compile() stands
    ii,               \* statements Linker::index has processed
    vi,               \* statements Asm::visit has processed
    status,           \* "running", "done" or "panic"
    panic_at,         \* the function whose panic aborted the run
    pc_trace,         \* Linker.program_counter after each indexed statement
    links             \* the Linker::link calls made, with their results

vars == << overflow_checks, units, text, position, ret, tokens, call_pos,
           current_token, statements, origin, labels_indexes, linker_pc,
           asm_pc, program, phase, ii, vi, status, panic_at, pc_trace, links >>

lexer_vars == << text, position, ret, tokens, call_pos >>
parser_vars == << current_token, statements >>
asm_vars == << origin, labels_indexes, linker_pc, asm_pc, program, ii, vi,
               pc_trace, links >>

(***************************************************************************)
(* Bounds of the model.                                                    *)
(***************************************************************************)
MaxUnits == 3

MaxCalls == 5

MaxLines == 2

MaxStatements == 3
\* direct calls of Linker::link on one symbol table
MaxLinkCalls == 2

(***************************************************************************)
(* Characters and their classes.                                           *)
(***************************************************************************)
NL == "nl"

SP == "sp"

TAB == "tab"

UpperLetters == {"A", "B", "C", "D", "E", "F", "J", "L", "M", "N", "O", "P",
                 "S", "T", "X", "Y"}

LowerLetters == {"a", "b", "c", "l", "m", "x", "y"}

DecDigits == <<"0", "1", "2", "3", "4", "5", "6", "7", "8", "9">>

HexUpper == <<"A", "B", "C", "D", "E", "F">>

HexLower == <<"a", "b", "c", "d", "e", "f">>

Range(s) == {s[i] : i \in DOMAIN s}

IndexOf(s, c) == CHOOSE i \in DOMAIN s : s[i] = c

\* char::is_alphabetic, on the model's alphabet
is_alphabetic(c) == c \in UpperLetters \cup LowerLetters

\* char::is_numeric, on the model's alphabet
is_numeric(c) == c \in Range(DecDigits)

\* the closures handed to parse_if
predicate(cls, c) ==
    CASE cls = "not_newline" -> c # NL
      [] cls = "alphabetic"  -> is_alphabetic(c)
      [] cls = "numeric"     -> is_numeric(c)
      [] cls = "hexa"        -> c \in Range(DecDigits) \cup Range(HexUpper) \cup Range(HexLower)
      [] cls = "binary"      -> c \in {"0", "1"}

\* the value of one digit in from_str_radix / str::parse
digit_value(c) ==
    IF c \in Range(DecDigits) THEN IndexOf(DecDigits, c) - 1
    ELSE IF c \in Range(HexUpper) THEN IndexOf(HexUpper, c) + 9
    ELSE IndexOf(HexLower, c) + 9

RECURSIVE from_str_radix(_, _)
from_str_radix(s, radix) ==
    IF s = <<>> THEN 0
    ELSE from_str_radix(SubSeq(s, 1, Len(s) - 1), radix) * radix + digit_value(s[Len(s)])

\* `let x = v; F(x)`: v is evaluated once and F applied to its value
Bind(v, F(_)) == CHOOSE r \in {F(x) : x \in {v}} : TRUE

(***************************************************************************)
(* Tokens (lexer.rs, enum Symbol, enum Token, get_token_type).             *)
(***************************************************************************)
Token(ty, sym, txt, num) == [type |-> ty, sym |-> sym, text |-> txt, num |-> num]

TSymbol(sym) == Token("Symbol", sym, <<>>, 0)

TText(txt) == Token("Text", "", txt, 0)

TDecimal(n) == Token("Decimal", "", <<>>, n)

THexa8(n) == Token("Hexa8", "", <<>>, n)

THexa16(n) == Token("Hexa16", "", <<>>, n)

TBinary(n) == Token("Binary", "", <<>>, n)

TEof == Token("Eof", "", <<>>, 0)

\* the value of current_token before Parser::new has filled it, and the token
\* field of a Result that is Err or was never produced
NoToken == Token("None", "", <<>>, 0)

get_token_type(token) == token.type

(***************************************************************************)
(* Lexer (lexer.rs).  Every operator returns the Result together with the  *)
(* cursor it leaves: [kind, tok, pos], kind is "ok", "err" or "panic".     *)
(***************************************************************************)
CharAt(t, p) == t[p + 1]

Ok(tok, p) == [kind |-> "ok", tok |-> tok, pos |-> p]

Err(p) == [kind |-> "err", tok |-> NoToken, pos |-> p]

Panic(p) == [kind |-> "panic", tok |-> NoToken, pos |-> p]

\* the while loop of parse_if: the run read and the cursor where it stops
RECURSIVE parse_if_loop(_, _, _, _)
parse_if_loop(t, p, cls, res) ==
    IF predicate(cls, CharAt(t, p))
    THEN IF p = Len(t) - 1
         THEN [res |-> Append(res, CharAt(t, p)), pos |-> p]
         ELSE parse_if_loop(t, p + 1, cls, Append(res, CharAt(t, p)))
    ELSE [res |-> res, pos |-> p]

\* parse_if: [panic, res, pos].  text[position] panics past the end; the
\* closing `position -= 1` underflows at position 0: a panic with overflow
\* checks, usize::MAX without (written -1: the `position += 1` that ends
\* get_next_token brings it back to 0).
parse_if(t, p, cls, chk) ==
    IF p >= Len(t) THEN [panic |-> TRUE, res |-> <<>>, pos |-> p]
    ELSE Bind(parse_if_loop(t, p, cls, <<>>), LAMBDA r :
         IF r.pos < Len(t) - 1
         THEN IF r.pos = 0 /\ chk
              THEN [panic |-> TRUE, res |-> r.res, pos |-> r.pos]
              ELSE [panic |-> FALSE, res |-> r.res, pos |-> r.pos - 1]
         ELSE [panic |-> FALSE, res |-> r.res, pos |-> r.pos])

skip_comment(t, p, chk) ==
    Bind(parse_if(t, p + 1, "not_newline", chk), LAMBDA r :
    IF r.panic THEN Panic(r.pos) ELSE Ok(TSymbol("SemiColon"), r.pos))

parse_text(t, p, chk) ==
    Bind(parse_if(t, p, "alphabetic", chk), LAMBDA r :
    IF r.panic THEN Panic(r.pos) ELSE Ok(TText(r.res), r.pos))

parse_decimal(t, p, chk) ==
    Bind(parse_if(t, p, "numeric", chk), LAMBDA r :
    Bind(from_str_radix(r.res, 10), LAMBDA v :
        IF r.panic THEN Panic(r.pos)
        ELSE IF v <= 255 THEN Ok(TDecimal(v), r.pos)
        ELSE Err(r.pos)))

parse_hexa(t, p, chk) ==
    Bind(parse_if(t, p + 1, "hexa", chk), LAMBDA r :
    IF r.panic THEN Panic(r.pos)
    ELSE IF Len(r.res) \in 1..2 THEN Ok(THexa8(from_str_radix(r.res, 16)), r.pos)
    ELSE IF Len(r.res) \in 3..4 THEN Ok(THexa16(from_str_radix(r.res, 16)), r.pos)
    ELSE Err(r.pos))

parse_binary(t, p, chk) ==
    Bind(parse_if(t, p + 1, "binary", chk), LAMBDA r :
    IF r.panic THEN Panic(r.pos)
    ELSE IF Len(r.res) \in 1..8 THEN Ok(TBinary(from_str_radix(r.res, 2)), r.pos)
    ELSE Err(r.pos))

\* the whitespace loop of get_next_token: the first index that is not
\* a space or a tab; Len(t) when the loop runs off the end (the read panics)
RECURSIVE skip_whitespace(_, _)
skip_whitespace(t, p) ==
    IF p >= Len(t) THEN p
    ELSE IF CharAt(t, p) \in {SP, TAB} THEN skip_whitespace(t, p + 1)
    ELSE p

match_char(t, p, chk) ==
    Bind(CharAt(t, p), LAMBDA c :
    CASE c = "(" -> Ok(TSymbol("LPar"), p)
      [] c = ")" -> Ok(TSymbol("RPar"), p)
      [] c = NL  -> Ok(TSymbol("NewLine"), p)
      [] c = ";" -> skip_comment(t, p, chk)
      [] c = ":" -> Ok(TSymbol("Colon"), p)
      [] c = "," -> Ok(TSymbol("Coma"), p)
      [] c = "#" -> Ok(TSymbol("HashTag"), p)
      [] c \in UpperLetters \cup LowerLetters \cup {".", "="} -> parse_text(t, p, chk)
      [] c \in Range(DecDigits) -> parse_decimal(t, p, chk)
      [] c = "$" -> parse_hexa(t, p, chk)
      [] c = "%" -> parse_binary(t, p, chk)
      [] OTHER -> Err(p))

get_next_token(t, p, chk) ==
    IF p >= Len(t) THEN Ok(TEof, p)
    ELSE Bind(skip_whitespace(t, p), LAMBDA q :
         IF q >= Len(t) THEN Panic(q)
         ELSE Bind(match_char(t, q, chk), LAMBDA r :
              IF r.kind = "panic" THEN r ELSE [r EXCEPT !.pos = r.pos + 1]))

(***************************************************************************)
(* Source texts.                                                           *)
(***************************************************************************)
RECURSIVE Concat(_)
Concat(ss) == IF ss = <<>> THEN <<>> ELSE Head(ss) \o Concat(Tail(ss))

SeqsUpTo(S, n) == UNION {[1..k -> S] : k \in 0..n}

\* lexical units, well-formed and malformed
LexUnits ==
    { <<"L", "D", "A">>, <<"X">>,
      <<"$">>, <<"$", "F">>, <<"$", "A", "0">>, <<"$", "0", "B", "F", "1">>,
      <<"$", "1", "2", "3", "4", "5">>,
      <<"%">>, <<"%", "1", "0", "1">>, <<"%", "1", "0", "1", "1", "0", "1", "0", "1">>,
      <<"%", "1", "0", "1", "1", "0", "1", "0", "1", "1">>,
      <<"7">>, <<"2", "5", "5">>, <<"2", "5", "6">>,
      <<"(">>, <<")">>, <<NL>>, <<",">>, <<":">>, <<"#">>,
      <<";">>, <<";", "c">>, <<SP>>, <<TAB>>,
      <<".">>, <<"=">>, <<"@">> }

(***************************************************************************)
(* The lexer driven on its own: get_next_token called until Eof, an error  *)
(* or a panic.                                                             *)
(***************************************************************************)
NoAsm ==
    /\ origin = 0 /\ labels_indexes = <<>> /\ linker_pc = 0 /\ asm_pc = 0
    /\ program = <<>> /\ ii = 0 /\ vi = 0 /\ pc_trace = <<>> /\ links = <<>>

InitLexer ==
    /\ overflow_checks \in BOOLEAN
    /\ units \in SeqsUpTo(LexUnits, MaxUnits)
    /\ text = Concat(units)
    /\ position = 0
    /\ ret = [kind |-> "none", tok |-> NoToken]
    /\ tokens = <<>>
    /\ call_pos = 0
    /\ current_token = NoToken
    /\ statements = <<>>
    /\ NoAsm
    /\ phase = "lex"
    /\ status = "running"
    /\ panic_at = ""

\* one call of Lexer::get_next_token
GetNextToken ==
    /\ phase = "lex"
    /\ status = "running"
    /\ ret.tok # TEof
    /\ Len(tokens) < MaxCalls
    /\ \E r \in {get_next_token(text, position, overflow_checks)} :
       /\ call_pos' = position
       /\ position' = r.pos
       /\ ret' = [kind |-> r.kind, tok |-> r.tok]
       /\ tokens' = IF r.kind = "ok" THEN Append(tokens, r.tok) ELSE tokens
       /\ status' = IF r.kind = "panic" THEN "panic" ELSE "running"
       /\ panic_at' = IF r.kind = "panic" THEN "get_next_token" ELSE ""
    /\ UNCHANGED << overflow_checks, units, text, phase >>
    /\ UNCHANGED parser_vars
    /\ UNCHANGED asm_vars

NextLexer == GetNextToken

SpecLexer == InitLexer /\ [][NextLexer]_vars

(***************************************************************************)
(* What the specification says of the lexer, written from its sentences:   *)
(* lexical units, the token each one stands for, and maximal runs.         *)
(***************************************************************************)
Min(S) == CHOOSE x \in S : \A y \in S : x <= y

Letters == UpperLetters \cup LowerLetters

HexChars == Range(DecDigits) \cup Range(HexUpper) \cup Range(HexLower)

StructuralChars == {"(", ")", NL, ";", ",", ":", "#"}

\* the first index at or after p that holds no space or tab (Len(t) if none)
FirstNonBlank(t, p) ==
    Min({q \in p..Len(t) : q = Len(t) \/ CharAt(t, q) \notin {SP, TAB}})

\* the length of the maximal run of characters of S that starts at index p
RunLength(t, p, S) ==
    Min({n \in 0..(Len(t) - p) : p + n = Len(t) \/ CharAt(t, p + n) \notin S})

Run(t, p, S) == SubSeq(t, p + 1, p + RunLength(t, p, S))

\* the number a numeral denotes in a base
RECURSIVE NumeralValue(_, _, _)
NumeralValue(ds, base, acc) ==
    IF ds = <<>> THEN acc
    ELSE NumeralValue(Tail(ds), base, acc * base + digit_value(Head(ds)))

IsBlankUnit(u) == u \in {<<SP>>, <<TAB>>}

IsCommentUnit(u) == u[1] = ";" /\ \A i \in 2..Len(u) : u[i] # NL

IsTextUnit(u) == \A i \in DOMAIN u : u[i] \in Letters

IsHexUnit(u) == u[1] = "$" /\ Len(u) \in 2..5 /\ \A i \in 2..Len(u) : u[i] \in HexChars

IsBinaryUnit(u) == u[1] = "%" /\ Len(u) \in 2..9 /\ \A i \in 2..Len(u) : u[i] \in {"0", "1"}

IsDecimalUnit(u) ==
    /\ \A i \in DOMAIN u : u[i] \in Range(DecDigits)
    /\ NumeralValue(u, 10, 0) <= 255

IsSymbolUnit(u) == Len(u) = 1 /\ u[1] \in StructuralChars \ {";"}

ValidUnit(u) ==
    IsBlankUnit(u) \/ IsCommentUnit(u) \/ IsTextUnit(u) \/ IsHexUnit(u)
        \/ IsBinaryUnit(u) \/ IsDecimalUnit(u) \/ IsSymbolUnit(u)

SymbolName(c) ==
    CASE c = "(" -> "LPar" [] c = ")" -> "RPar" [] c = NL -> "NewLine"
      [] c = ";" -> "SemiColon" [] c = "," -> "Coma" [] c = ":" -> "Colon"
      [] c = "#" -> "HashTag"

UnitToken(u) ==
    CASE IsCommentUnit(u) -> TSymbol("SemiColon")
      [] IsSymbolUnit(u)  -> TSymbol(SymbolName(u[1]))
      [] IsTextUnit(u)    -> TText(u)
      [] IsDecimalUnit(u) -> TDecimal(NumeralValue(u, 10, 0))
      [] IsHexUnit(u) /\ Len(u) <= 3 -> THexa8(NumeralValue(Tail(u), 16, 0))
      [] IsHexUnit(u) /\ Len(u) > 3  -> THexa16(NumeralValue(Tail(u), 16, 0))
      [] IsBinaryUnit(u)  -> TBinary(NumeralValue(Tail(u), 2, 0))

\* unit v written right after unit u stays a unit of its own
Separate(u, v) ==
    /\ IsCommentUnit(u) => v = <<NL>>
    /\ IsTextUnit(u) => v[1] \notin Letters
    /\ IsHexUnit(u) => v[1] \notin HexChars
    /\ IsBinaryUnit(u) => v[1] \notin {"0", "1"}
    /\ IsDecimalUnit(u) => v[1] \notin Range(DecDigits)

RECURSIVE UnitTokens(_)
UnitTokens(us) ==
    IF us = <<>> THEN <<>>
    ELSE IF IsBlankUnit(Head(us)) THEN UnitTokens(Tail(us))
    ELSE <<UnitToken(Head(us))>> \o UnitTokens(Tail(us))

IsPrefix(s, t) == Len(s) <= Len(t) /\ s = SubSeq(t, 1, Len(s))

\* a source text made of valid lexical units, each standing on its own, that
\* does not end in a space or a tab
UnitSource ==
    /\ \A i \in DOMAIN units : ValidUnit(units[i])
    /\ \A i \in 1..(Len(units) - 1) : Separate(units[i], units[i + 1])
    /\ units # <<>> => ~IsBlankUnit(units[Len(units)])

\* C2: the tokens of a source text made of valid lexical units are the
\* tokens of its units, in source order, one per unit, followed by Eof; no
\* call fails.  (Sources ending in a space or a tab are left to the claim
\* about whitespace at the end of the input.)
C2_TokensFollowUnits ==
    (phase = "lex" /\ UnitSource) =>
        /\ status # "panic"
        /\ ret.kind # "err"
        /\ IsPrefix(tokens, UnitTokens(units) \o <<TEof>>)

\* the character the last call started from, after its whitespace skipping
CallStart == FirstNonBlank(text, call_pos)

Called == phase = "lex" /\ ret.kind # "none" /\ CallStart < Len(text)

HexaClaim(n, v) ==
    IF n \in 1..2 THEN ret = [kind |-> "ok", tok |-> THexa8(v)]
    ELSE IF n \in 3..4 THEN ret = [kind |-> "ok", tok |-> THexa16(v)]
    ELSE ret.kind = "err"

BinaryClaim(n, v) ==
    IF n \in 1..8 THEN ret = [kind |-> "ok", tok |-> TBinary(v)] ELSE ret.kind = "err"

DecimalClaim(v) ==
    IF v <= 255 THEN ret = [kind |-> "ok", tok |-> TDecimal(v)] ELSE ret.kind = "err"

\* C4: a call that starts at a numeric literal classifies the maximal run of
\* the literal's class by its length: `$` with 1-2 digits is Hexa8, with 3-4
\* Hexa16, with 0 or 5 and more a lexical error; `%` with 1-8 bits is
\* Binary, with 0 or more than 8 an error; a decimal is Decimal up to 255
\* and an error above.
C4_LiteralsByLength ==
    Called =>
        LET c == CharAt(text, CallStart) IN
        /\ c = "$" => HexaClaim(RunLength(text, CallStart + 1, HexChars),
                                NumeralValue(Run(text, CallStart + 1, HexChars), 16, 0))
        /\ c = "%" => BinaryClaim(RunLength(text, CallStart + 1, {"0", "1"}),
                                  NumeralValue(Run(text, CallStart + 1, {"0", "1"}), 2, 0))
        /\ c \in Range(DecDigits) =>
               DecimalClaim(NumeralValue(Run(text, CallStart, Range(DecDigits)), 10, 0))

\* C5: a Text token is a non-empty run of letters, and a call whose first
\* character is no letter, digit, `$`, `%` or structural symbol returns a
\* lexical error.
C5_TextIsLettersOnly ==
    /\ (phase = "lex" /\ ret.kind = "ok" /\ ret.tok.type = "Text") =>
           /\ ret.tok.text # <<>>
           /\ \A i \in DOMAIN ret.tok.text : ret.tok.text[i] \in Letters
    /\ Called =>
           (CharAt(text, CallStart) \notin
                Letters \cup Range(DecDigits) \cup {"$", "%"} \cup StructuralChars
            => ret.kind = "err")

\* C13: a call made with only spaces and tabs between the cursor and the
\* end of the source returns Eof, and no call stops on a read of a
\* character at an index greater than or equal to the source length.
C13_WhitespaceToEndIsEof ==
    /\ (phase = "lex" /\ ret.kind # "none" /\ call_pos < Len(text)
           /\ CallStart >= Len(text)) =>
           ret = [kind |-> "ok", tok |-> TEof]
    /\ (phase = "lex" /\ status = "panic") => position < Len(text)

\* C14: a call made with the cursor before the end of the source leaves the
\* cursor strictly greater than it was, whatever the call returns, so that
\* repeated calls reach the end of the source.
C14_CursorAdvances ==
    [][ (phase = "lex" /\ position < Len(text)) => position' > position ]_vars

(***************************************************************************)
(* The syntax tree (ast.rs, enum Ast).  An operand is [node, val, reg,     *)
(* name]; a statement is [node, name, arg] with node "Label" or            *)
(* "Instruction".                                                          *)
(***************************************************************************)
Operand(node, val, reg, name) == [node |-> node, val |-> val, reg |-> reg, name |-> name]

NoArg == Operand("None", 0, "", <<>>)

Number8(v) == Operand("Number8", v, "", <<>>)

Absolute(v) == Operand("Absolute", v, "", <<>>)

ZeroPage(v) == Operand("ZeroPage", v, "", <<>>)

AbsoluteIndirect(v) == Operand("AbsoluteIndirect", v, "", <<>>)

AsoluteIndexed(v, reg) == Operand("AsoluteIndexed", v, reg, <<>>)

ZeroPageIndexed(v, reg) == Operand("ZeroPageIndexed", v, reg, <<>>)

IndirectX(v) == Operand("IndirectX", v, "", <<>>)

IndirectY(v) == Operand("IndirectY", v, "", <<>>)

LabelRef(name) == Operand("Label", 0, "", name)

\* parser.rs names a variant Ast::Accumulator that ast.rs does not declare
Accumulator == Operand("Accumulator", 0, "", <<>>)

LabelStatement(name) == [node |-> "Label", name |-> name, arg |-> NoArg]

Instruction(name, arg) == [node |-> "Instruction", name |-> name, arg |-> arg]

(***************************************************************************)
(* Parser (parser.rs).  The parser state threaded through the recursive    *)
(* descent is [pos, cur, ok]: the lexer's cursor, current_token, and       *)
(* whether no panic has happened yet.  A production returns [ps, ast].     *)
(***************************************************************************)
Failed(ps) == [ps EXCEPT !.ok = FALSE]

\* self.current_token = Some(self.lexer.get_next_token().unwrap())
advance(t, chk, ps) ==
    Bind(get_next_token(t, ps.pos, chk), LAMBDA r :
    IF r.kind = "ok" THEN [pos |-> r.pos, cur |-> r.tok, ok |-> TRUE]
    ELSE [pos |-> r.pos, cur |-> NoToken, ok |-> FALSE])

eat(t, chk, ps, token) ==
    IF ~ps.ok THEN ps
    ELSE IF ps.cur = token THEN advance(t, chk, ps)
    ELSE Failed(ps)

eat_type(t, chk, ps, token_type) ==
    IF ~ps.ok THEN ps
    ELSE IF get_token_type(ps.cur) = token_type THEN advance(t, chk, ps)
    ELSE Failed(ps)

current_token_is(ps, token) == ps.cur = token

Produced(ps, ast) == [ps |-> ps, ast |-> ast]

comment(t, chk, ps) == eat(t, chk, ps, TSymbol("SemiColon"))

number(t, chk, ps) ==
    IF ps.cur.type \in {"Decimal", "Binary", "Hexa8"}
    THEN Produced(eat_type(t, chk, ps, ps.cur.type), Number8(ps.cur.num))
    ELSE Produced(Failed(ps), NoArg)

immediate(t, chk, ps) ==
    Bind(eat(t, chk, ps, TSymbol("HashTag")), LAMBDA p1 :
    IF ~p1.ok THEN Produced(p1, NoArg) ELSE number(t, chk, p1))

label(t, chk, ps) ==
    Bind(eat_type(t, chk, ps, "Text"), LAMBDA p1 :
    IF ps.cur.text \in {<<"A">>, <<"a">>}
    THEN Produced(p1, Accumulator)
    ELSE Produced(p1, LabelRef(ps.cur.text)))

\* the (COMA [X,Y])? tail shared by absolute and zero_page; p1 is the
\* parser after the address token, h the address
indexed_tail(t, chk, p1, plain, indexed_node, h) ==
    IF p1.ok /\ current_token_is(p1, TSymbol("Coma"))
    THEN Bind(eat(t, chk, p1, TSymbol("Coma")), LAMBDA p2 :
         Bind(eat_type(t, chk, p2, "Text"), LAMBDA p3 :
             IF ~p3.ok THEN Produced(p3, NoArg)
             ELSE IF p2.cur.text \in {<<"x">>, <<"X">>, <<"y">>, <<"Y">>}
             THEN Produced(p3, Operand(indexed_node, h, p2.cur.text[1], <<>>))
             ELSE Produced(Failed(p3), NoArg)))
    ELSE Produced(p1, plain)

absolute(t, chk, ps) ==
    Bind(eat_type(t, chk, ps, "Hexa16"), LAMBDA p1 :
    indexed_tail(t, chk, p1, Absolute(ps.cur.num), "AsoluteIndexed", ps.cur.num))

zero_page(t, chk, ps) ==
    Bind(eat_type(t, chk, ps, "Hexa8"), LAMBDA p1 :
    indexed_tail(t, chk, p1, ZeroPage(ps.cur.num), "ZeroPageIndexed", ps.cur.num))

absolute_indirect(t, chk, ps) ==
    Bind(eat_type(t, chk, ps, "Hexa16"), LAMBDA p1 :
    Bind(eat(t, chk, p1, TSymbol("RPar")), LAMBDA p2 :
    Produced(p2, AbsoluteIndirect(ps.cur.num))))

to_uppercase(txt) ==
    IF txt = <<"x">> THEN <<"X">> ELSE IF txt = <<"y">> THEN <<"Y">> ELSE txt

\* the arm `Token::Symbol(Symbol::RPar)` of zero_page_indirect
indirect_y(t, chk, p2, h) ==
    Bind(eat(t, chk, p2, TSymbol("Coma")), LAMBDA p3 :
    Bind(eat_type(t, chk, p3, "Text"), LAMBDA p4 :
        IF ~p4.ok THEN Produced(p4, NoArg)
        ELSE IF to_uppercase(p3.cur.text) # <<"Y">> THEN Produced(Failed(p4), NoArg)
        ELSE Produced(p4, IndirectY(h))))

\* the arm `Token::Symbol(Symbol::Coma)` of zero_page_indirect
indirect_x(t, chk, p2, h) ==
    Bind(eat_type(t, chk, p2, "Text"), LAMBDA p3 :
        IF ~p3.ok THEN Produced(p3, NoArg)
        ELSE IF to_uppercase(p2.cur.text) # <<"X">> THEN Produced(Failed(p3), NoArg)
        ELSE Produced(eat(t, chk, p3, TSymbol("RPar")), IndirectX(h)))

zero_page_indirect(t, chk, ps) ==
    Bind(eat_type(t, chk, ps, "Hexa8"), LAMBDA p1 :
    Bind(eat_type(t, chk, p1, "Symbol"), LAMBDA p2 :
        IF ~p2.ok THEN Produced(p2, NoArg)
        ELSE IF p1.cur = TSymbol("RPar") THEN indirect_y(t, chk, p2, ps.cur.num)
        ELSE IF p1.cur = TSymbol("Coma") THEN indirect_x(t, chk, p2, ps.cur.num)
        ELSE Produced(Failed(p2), NoArg)))

indirect(t, chk, ps) ==
    Bind(eat(t, chk, ps, TSymbol("LPar")), LAMBDA p1 :
    IF ~p1.ok THEN Produced(p1, NoArg)
    ELSE IF p1.cur.type = "Hexa16" THEN absolute_indirect(t, chk, p1)
    ELSE IF p1.cur.type = "Hexa8" THEN zero_page_indirect(t, chk, p1)
    ELSE Produced(Failed(p1), NoArg))

arg(t, chk, ps) ==
    CASE ps.cur.type = "Hexa16" -> absolute(t, chk, ps)
      [] ps.cur.type = "Hexa8" -> zero_page(t, chk, ps)
      [] ps.cur = TSymbol("LPar") -> indirect(t, chk, ps)
      [] ps.cur = TSymbol("HashTag") -> immediate(t, chk, ps)
      [] ps.cur.type = "Text" -> label(t, chk, ps)
      [] OTHER -> Produced(Failed(ps), NoArg)

\* the optional comment that ends statement()
trailing_comment(t, chk, ps) ==
    IF ps.ok /\ current_token_is(ps, TSymbol("SemiColon")) THEN comment(t, chk, ps) ELSE ps

\* statement() after its first token, token, has been eaten as a Text
statement_tail(t, chk, token, p1) ==
    IF ~p1.ok THEN [ps |-> p1, some |-> TRUE, ast |-> LabelStatement(<<>>)]
    ELSE IF p1.cur = TSymbol("Colon")
    THEN Bind(eat(t, chk, p1, TSymbol("Colon")), LAMBDA p2 :
         [ps |-> trailing_comment(t, chk, p2), some |-> TRUE,
          ast |-> LabelStatement(token.text)])
    ELSE IF \/ p1.cur.type \in {"Binary", "Decimal", "Hexa16", "Hexa8", "Text"}
            \/ p1.cur \in {TSymbol("LPar"), TSymbol("HashTag")}
    THEN Bind(arg(t, chk, p1), LAMBDA a :
         [ps |-> trailing_comment(t, chk, a.ps), some |-> TRUE,
          ast |-> Instruction(token.text, a.ast)])
    ELSE [ps |-> trailing_comment(t, chk, p1), some |-> TRUE,
          ast |-> Instruction(token.text, NoArg)]

\* statement(): [ps, some, ast]; some = FALSE is the None of a comment line
statement(t, chk, ps) ==
    IF current_token_is(ps, TSymbol("SemiColon"))
    THEN [ps |-> comment(t, chk, ps), some |-> FALSE, ast |-> LabelStatement(<<>>)]
    ELSE Bind(eat_type(t, chk, ps, "Text"), LAMBDA p1 :
         statement_tail(t, chk, ps.cur, p1))

\* one turn of the while loop of statements(): [ps, statements, break]
statements_turn(t, chk, ps, stmts) ==
    Bind(statement(t, chk, ps), LAMBDA s :
    Bind(IF s.ps.ok /\ s.some THEN Append(stmts, s.ast) ELSE stmts, LAMBDA st :
        IF ~s.ps.ok THEN [ps |-> s.ps, statements |-> st, break |-> FALSE]
        ELSE IF current_token_is(s.ps, TSymbol("NewLine"))
        THEN [ps |-> eat(t, chk, s.ps, TSymbol("NewLine")), statements |-> st, break |-> FALSE]
        ELSE IF current_token_is(s.ps, TEof)
        THEN [ps |-> eat(t, chk, s.ps, TEof), statements |-> st, break |-> TRUE]
        ELSE [ps |-> s.ps, statements |-> st, break |-> FALSE]))

(***************************************************************************)
(* Addressing modes (ast.rs, get_addresing_mode).  "panic" is the panic!   *)
(* of an unknown register tag or of a node that is no operand.             *)
(***************************************************************************)
get_addresing_mode(a) ==
    CASE a.node = "None" -> "Implicit"
      [] a.node = "Absolute" -> "Absolute"
      [] a.node = "AbsoluteIndirect" -> "Indirect"
      [] a.node = "IndirectX" -> "IndirectX"
      [] a.node = "IndirectY" -> "IndirectY"
      [] a.node = "ZeroPage" -> "ZeroPage"
      [] a.node = "AsoluteIndexed" ->
            IF a.reg \in {"x", "X"} THEN "AbsoluteX"
            ELSE IF a.reg \in {"y", "Y"} THEN "AbsoluteY" ELSE "panic"
      [] a.node = "ZeroPageIndexed" ->
            IF a.reg \in {"x", "X"} THEN "ZeroPageX"
            ELSE IF a.reg \in {"y", "Y"} THEN "ZeroPageY" ELSE "panic"
      [] a.node = "Label" -> "Relative"
      [] a.node = "Number8" -> "Immediate"
      [] OTHER -> "panic"

(***************************************************************************)
(* The instruction-set lookup (module instruction, not among the sources): *)
(* get_instruction(mnemonic, mode) -> {opcode, mode, len}, fatal when the  *)
(* pair is undefined.  A bare label operand is looked up as Relative; for  *)
(* a jump the lookup reports the Absolute instruction.                     *)
(***************************************************************************)
BNE == <<"B", "N", "E">>

JMP == <<"J", "M", "P">>

LDA == <<"L", "D", "A">>

LDX == <<"L", "D", "X">>

NOP == <<"N", "O", "P">>

STA == <<"S", "T", "A">>

Entry(name, key, opcode, mode, len) ==
    [name |-> name, key |-> key, opcode |-> opcode, mode |-> mode, len |-> len]

InstructionSet ==
    { Entry(NOP, "Implicit", 234, "Implicit", 1),
      Entry(LDA, "Immediate", 169, "Immediate", 2),
      Entry(LDA, "ZeroPage", 165, "ZeroPage", 2),
      Entry(LDA, "ZeroPageX", 181, "ZeroPageX", 2),
      Entry(LDX, "ZeroPageY", 182, "ZeroPageY", 2),
      Entry(LDA, "Absolute", 173, "Absolute", 3),
      Entry(STA, "Absolute", 141, "Absolute", 3),
      Entry(LDA, "AbsoluteX", 189, "AbsoluteX", 3),
      Entry(LDA, "AbsoluteY", 185, "AbsoluteY", 3),
      Entry(LDA, "IndirectX", 161, "IndirectX", 2),
      Entry(LDA, "IndirectY", 177, "IndirectY", 2),
      Entry(JMP, "Indirect", 108, "Indirect", 3),
      Entry(JMP, "Relative", 76, "Absolute", 3),
      Entry(BNE, "Relative", 208, "Relative", 2) }

NoInstruction == [found |-> FALSE, opcode |-> 0, mode |-> "", len |-> 0]

get_instruction(name, mode) ==
    LET hits == {e \in InstructionSet : e.name = name /\ e.key = mode} IN
    IF hits = {} THEN NoInstruction
    ELSE LET e == CHOOSE e \in hits : TRUE IN
         [found |-> TRUE, opcode |-> e.opcode, mode |-> e.mode, len |-> e.len]

\* the instruction of a statement, as index and visit both look it up
lookup(stmt) ==
    LET mode == get_addresing_mode(stmt.arg) IN
    IF mode = "panic" THEN NoInstruction ELSE get_instruction(stmt.name, mode)

(***************************************************************************)
(* Fixed-width arithmetic.                                                 *)
(***************************************************************************)
\* the two bytes of a 16-bit value, high byte first
to_be_bytes(v) == << v \div 256, v % 256 >>

\* u16::to_le_bytes
to_le_bytes(v) == << v % 256, v \div 256 >>

\* u16 `+=`: [panic, val]
add_u16(a, b, chk) ==
    IF a + b > 65535 THEN [panic |-> chk, val |-> (a + b) % 65536]
    ELSE [panic |-> FALSE, val |-> a + b]

\* `x as i16` of a u16
as_i16(x) == IF x >= 32768 THEN x - 65536 ELSE x

\* i16 `-`: [panic, val]
sub_i16(a, b, chk) ==
    IF a - b \in -32768..32767 THEN [panic |-> FALSE, val |-> a - b]
    ELSE [panic |-> chk, val |-> ((a - b + 32768) % 65536) - 32768]

\* i16::abs: [panic, val]; abs(i16::MIN) overflows
abs_i16(a, chk) ==
    IF a = -32768 THEN [panic |-> chk, val |-> a]
    ELSE [panic |-> FALSE, val |-> IF a < 0 THEN -a ELSE a]

\* u8 `-`: [panic, val]
sub_u8(a, b, chk) ==
    IF a < b THEN [panic |-> chk, val |-> a - b + 256]
    ELSE [panic |-> FALSE, val |-> a - b]

wrapping_neg(a) == (256 - a) % 256

\* a counter advanced by the operand bytes only, the opcode byte forgotten
visit_advance_operand_only(pc, instruction, chk) ==
    add_u16(pc, instruction.len - 1, chk)

\* Asm::visit: self.program_counter += u16::from(instruction.len)
visit_advance(pc, instruction, chk) == add_u16(pc, instruction.len, chk)

\* a counter advanced by the opcode byte only, whatever the operand
index_advance_opcode_only(pc, instruction, chk) == add_u16(pc, 1, chk)

\* Linker::index: self.program_counter += u16::from(instruction.len)
index_advance(pc, instruction, chk) == add_u16(pc, instruction.len, chk)

(***************************************************************************)
(* Linker (linker.rs).                                                     *)
(***************************************************************************)
\* an insert that keeps the binding a key already has
insert_if_absent(map, key, value) ==
    [k \in DOMAIN map \cup {key} |-> IF k \in DOMAIN map THEN map[k] ELSE value]

\* the HashMap's insert
insert(map, key, value) ==
    [k \in DOMAIN map \cup {key} |-> IF k = key THEN value ELSE map[k]]

\* a lookup that answers address 0 for an absent label instead of failing
get_or_default(map, name) ==
    IF name \in DOMAIN map THEN [panic |-> FALSE, val |-> map[name]]
    ELSE [panic |-> FALSE, val |-> 0]

\* Linker::get: [panic, val]; unwrap() of an absent label panics
get(map, name) ==
    IF name \in DOMAIN map THEN [panic |-> FALSE, val |-> map[name]]
    ELSE [panic |-> TRUE, val |-> 0]

Linked(bytes) == [panic |-> "", bytes |-> bytes]

LinkPanic(at) == [panic |-> at, bytes |-> <<>>]

\* the Relative arm of Linker::link
link_relative(label_index, instruction, asm_program_counter, chk) ==
    LET d == sub_i16(as_i16(label_index), as_i16(asm_program_counter), chk)
        a == abs_i16(d.val, chk)
        offset0 == a.val % 256
        offset == IF label_index < asm_program_counter
                  THEN wrapping_neg(offset0) ELSE offset0
        b == sub_u8(offset, instruction.len, chk)
    IN  IF d.panic \/ a.panic \/ b.panic THEN LinkPanic("link: overflow")
        ELSE Linked(<< b.val >>)

\* a link that encodes the address for every mode other than Relative
link_any_mode(map, name, instruction, asm_program_counter, chk) ==
    LET label_index == get(map, name) IN
    IF label_index.panic THEN LinkPanic("get")
    ELSE IF instruction.mode = "Relative"
    THEN link_relative(label_index.val, instruction, asm_program_counter, chk)
    ELSE Linked(to_le_bytes(label_index.val))

\* Linker::link: [panic, bytes]
link(map, name, instruction, asm_program_counter, chk) ==
    LET label_index == get(map, name) IN
    IF label_index.panic THEN LinkPanic("get")
    ELSE IF instruction.mode = "Relative"
    THEN link_relative(label_index.val, instruction, asm_program_counter, chk)
    ELSE IF instruction.mode = "Absolute" THEN Linked(to_le_bytes(label_index.val))
    ELSE LinkPanic("link: unexpected mode")

(***************************************************************************)
(* Code generator (asm.rs).                                                *)
(***************************************************************************)
\* Asm::get_args_bytes: [panic, bytes]
get_args_bytes(a, instruction, map, asm_program_counter, chk) ==
    CASE a.node = "None" -> Linked(<<>>)
      [] a.node \in {"Absolute", "AbsoluteIndirect", "AsoluteIndexed"} ->
            Linked(to_le_bytes(a.val))
      [] a.node \in {"ZeroPage", "ZeroPageIndexed", "IndirectX", "IndirectY", "Number8"} ->
            Linked(<< a.val >>)
      [] a.node = "Label" -> link(map, a.name, instruction, asm_program_counter, chk)
      [] OTHER -> LinkPanic("get_args_bytes")

(***************************************************************************)
(* compile() step by step (asm.rs, Asm::new and Asm::compile).  phase is   *)
(* "new" before Asm::new, "parse" at the call of parse(), "statements"     *)
(* inside the loop of Parser::statements, "index" during Linker::index,    *)
(* "visit" during Asm::visit; status "done" is compile() having returned   *)
(* program.                                                                *)
(***************************************************************************)
Halt(at) ==
    /\ status' = "panic"
    /\ panic_at' = at

\* Asm::new: Parser::new reads the first token, Linker::new and the two
\* counters take the origin
AsmNew ==
    /\ phase = "new"
    /\ status = "running"
    /\ \E ps \in {advance(text, overflow_checks, [pos |-> position, cur |-> NoToken, ok |-> TRUE])} :
       IF ps.ok
       THEN /\ position' = ps.pos
            /\ current_token' = ps.cur
            /\ phase' = "parse"
            /\ UNCHANGED << status, panic_at >>
       ELSE /\ Halt("Parser::new")
            /\ UNCHANGED << position, current_token, phase >>
    /\ linker_pc' = origin
    /\ asm_pc' = origin
    /\ UNCHANGED << overflow_checks, units, text, ret, tokens, call_pos, statements,
                    origin, labels_indexes, program, ii, vi, pc_trace, links >>

\* Parser::parse entering statements(): the loop condition is computed
\* once, from the first token
Parse ==
    /\ phase = "parse"
    /\ status = "running"
    /\ phase' = IF get_token_type(current_token) \in {"Text", "Symbol"}
                THEN "statements" ELSE "index"
    /\ UNCHANGED << overflow_checks, units, status, panic_at >>
    /\ UNCHANGED lexer_vars
    /\ UNCHANGED parser_vars
    /\ UNCHANGED asm_vars

\* one turn of the loop of Parser::statements
StatementsTurn ==
    /\ phase = "statements"
    /\ status = "running"
    /\ \E r \in {statements_turn(text, overflow_checks,
                                 [pos |-> position, cur |-> current_token, ok |-> TRUE],
                                 statements)} :
       IF r.ps.ok
       THEN /\ position' = r.ps.pos
            /\ current_token' = r.ps.cur
            /\ statements' = r.statements
            /\ phase' = IF r.break THEN "index" ELSE "statements"
            /\ UNCHANGED << status, panic_at >>
       ELSE /\ Halt("Parser::statements")
            /\ UNCHANGED << position, current_token, statements, phase >>
    /\ UNCHANGED << overflow_checks, units, text, ret, tokens, call_pos >>
    /\ UNCHANGED asm_vars

\* Linker::index on the next statement
IndexStep ==
    /\ phase = "index"
    /\ status = "running"
    /\ ii < Len(statements)
    /\ LET stmt == statements[ii + 1]
           instruction == lookup(stmt)
           pc == index_advance(linker_pc, instruction, overflow_checks)
       IN  IF stmt.node = "Label"
           THEN /\ labels_indexes' = insert(labels_indexes, stmt.name, linker_pc)
                /\ pc_trace' = Append(pc_trace, linker_pc)
                /\ ii' = ii + 1
                /\ UNCHANGED << linker_pc, status, panic_at >>
           ELSE IF ~instruction.found
           THEN /\ Halt("index: get_instruction")
                /\ UNCHANGED << labels_indexes, linker_pc, pc_trace, ii >>
           ELSE IF pc.panic
           THEN /\ Halt("index: overflow")
                /\ UNCHANGED << labels_indexes, linker_pc, pc_trace, ii >>
           ELSE /\ linker_pc' = pc.val
                /\ pc_trace' = Append(pc_trace, pc.val)
                /\ ii' = ii + 1
                /\ UNCHANGED << labels_indexes, status, panic_at >>
    /\ UNCHANGED << overflow_checks, units, origin, asm_pc, program, vi, links, phase >>
    /\ UNCHANGED lexer_vars
    /\ UNCHANGED parser_vars

\* Linker::index has walked every statement: compile() goes on to visit
IndexDone ==
    /\ phase = "index"
    /\ status = "running"
    /\ ii = Len(statements)
    /\ phase' = "visit"
    /\ UNCHANGED << overflow_checks, units, status, panic_at >>
    /\ UNCHANGED lexer_vars
    /\ UNCHANGED parser_vars
    /\ UNCHANGED asm_vars

\* the record of one Linker::link call
LinkRecord(stmt, instruction, r) ==
    [ at |-> vi + 1, name |-> stmt.arg.name, pc |-> asm_pc, mode |-> instruction.mode,
      len |-> instruction.len, bound |-> stmt.arg.name \in DOMAIN labels_indexes,
      address |-> get(labels_indexes, stmt.arg.name).val,
      panic |-> r.panic, bytes |-> r.bytes ]

\* Asm::visit on the next statement
VisitStep ==
    /\ phase = "visit"
    /\ status = "running"
    /\ vi < Len(statements)
    /\ LET stmt == statements[vi + 1]
           instruction == lookup(stmt)
           a == get_args_bytes(stmt.arg, instruction, labels_indexes, asm_pc, overflow_checks)
           pc == visit_advance(asm_pc, instruction, overflow_checks)
       IN  IF stmt.node = "Label"
           THEN /\ vi' = vi + 1
                /\ UNCHANGED << program, asm_pc, links, status, panic_at >>
           ELSE IF ~instruction.found
           THEN /\ Halt("visit: get_instruction")
                /\ UNCHANGED << program, asm_pc, links, vi >>
           ELSE /\ links' = IF stmt.arg.node = "Label"
                            THEN Append(links, LinkRecord(stmt, instruction, a))
                            ELSE links
                /\ IF a.panic # ""
                   THEN /\ Halt(a.panic)
                        /\ UNCHANGED << program, asm_pc, vi >>
                   ELSE IF pc.panic
                   THEN /\ program' = program \o << instruction.opcode >> \o a.bytes
                        /\ Halt("visit: overflow")
                        /\ UNCHANGED << asm_pc, vi >>
                   ELSE /\ program' = program \o << instruction.opcode >> \o a.bytes
                        /\ asm_pc' = pc.val
                        /\ vi' = vi + 1
                        /\ UNCHANGED << status, panic_at >>
    /\ UNCHANGED << overflow_checks, units, origin, labels_indexes, linker_pc, ii,
                    pc_trace, phase >>
    /\ UNCHANGED lexer_vars
    /\ UNCHANGED parser_vars

\* Asm::visit has walked every statement: compile() returns program.clone()
Return ==
    /\ phase = "visit"
    /\ status = "running"
    /\ vi = Len(statements)
    /\ status' = "done"
    /\ UNCHANGED << overflow_checks, units, phase, panic_at >>
    /\ UNCHANGED lexer_vars
    /\ UNCHANGED parser_vars
    /\ UNCHANGED asm_vars

(***************************************************************************)
(* Index and code generation of a parsed program: the state after          *)
(* Asm::new and parse(), for the statement sequences and origins below.    *)
(***************************************************************************)
LabelL == <<"l">>

LabelM == <<"m">>

\* the statements programs are made of; no statement declares m
Statements ==
    { LabelStatement(LabelL),
      Instruction(NOP, NoArg),
      Instruction(BNE, LabelRef(LabelL)),
      Instruction(JMP, LabelRef(LabelL)),
      Instruction(BNE, LabelRef(LabelM)),
      Instruction(LDA, Number8(16)),
      Instruction(LDA, ZeroPage(160)),
      Instruction(LDX, ZeroPageIndexed(160, "y")),
      Instruction(STA, Absolute(512)),
      Instruction(LDA, AsoluteIndexed(43707, "X")),
      Instruction(JMP, AbsoluteIndirect(43707)),
      Instruction(LDA, IndirectX(255)),
      Instruction(LDA, IndirectY(15)) }

\* 0x0600 is the origin main.rs compiles at; 0xFFFD lets the counters reach
\* the end of the address space
Origins == {1536, 65533}

InitAsm ==
    /\ overflow_checks \in BOOLEAN
    /\ units = <<>>
    /\ text = <<>>
    /\ position = 0
    /\ ret = [kind |-> "none", tok |-> NoToken]
    /\ tokens = <<>>
    /\ call_pos = 0
    /\ current_token = TEof
    /\ statements \in SeqsUpTo(Statements, MaxStatements)
    /\ origin \in Origins
    /\ labels_indexes = <<>>
    /\ linker_pc = origin
    /\ asm_pc = origin
    /\ program = <<>>
    /\ phase = "index"
    /\ ii = 0
    /\ vi = 0
    /\ status = "running"
    /\ panic_at = ""
    /\ pc_trace = <<>>
    /\ links = <<>>

Next == IndexStep \/ IndexDone \/ VisitStep \/ Return

Spec == InitAsm /\ [][Next]_vars

(***************************************************************************)
(* Properties of indexing and code generation.                             *)
(***************************************************************************)
RECURSIVE Sum(_, _, _)
Sum(f(_), lo, hi) == IF lo > hi THEN 0 ELSE f(lo) + Sum(f, lo + 1, hi)

IsInstruction(k) == statements[k].node = "Instruction"

\* the encoded length the lookup reports for statement k (0 for a label)
EncodedLength(k) == IF IsInstruction(k) THEN lookup(statements[k]).len ELSE 0

\* the address of statement k: the origin plus the encoded lengths of the
\* instructions before it, in the 16 bits of an address
AddressOf(k) == (origin + Sum(EncodedLength, 1, k - 1)) % 65536

Declarations(name) ==
    {k \in DOMAIN statements : statements[k].node = "Label" /\ statements[k].name = name}

IsLabelReference(k) == IsInstruction(k) /\ statements[k].arg.node = "Label"

\* C1: a branch at address A of encoded length L to a label bound to T is
\* linked, without failing, to the one byte (T - (A + L)) mod 256.  (Stated
\* for the programs that do not run past the end of the address space.)
C1_RelativeDisplacement ==
    \A i \in DOMAIN links :
        (links[i].mode = "Relative" /\ links[i].bound /\ linker_pc >= origin) =>
            /\ links[i].panic = ""
            /\ links[i].bytes = << (links[i].address - (links[i].pc + links[i].len)) % 256 >>

\* the indexer's counter after the first k statements
IndexedCounter(k) == IF k = 0 THEN origin ELSE pc_trace[k]

\* C7: once the code generator has processed as many statements as the
\* indexer had, its location counter holds the value the indexer's held;
\* a label statement left the indexer's counter alone and an instruction
\* statement advanced it by the looked-up length.
C7_CountersInLockStep ==
    /\ phase = "visit" => asm_pc = IndexedCounter(vi)
    /\ \A k \in DOMAIN pc_trace :
          pc_trace[k] = (IndexedCounter(k - 1) + EncodedLength(k)) % 65536

C7_Witness ==
    /\ phase = "visit" /\ status = "running" /\ vi = 3
    /\ statements[1].node = "Instruction" /\ statements[2].node = "Label"
    /\ statements[3].node = "Instruction"
    /\ asm_pc = origin + 5

\* C8: after indexing, a label declared once is bound to the origin plus
\* the encoded lengths of the instructions before its declaration; every
\* reference to it, before or after the declaration, is linked against
\* that address, and no link call happens before indexing is complete.
C8_DeclarationOrderIndependent ==
    /\ links # <<>> => ii = Len(statements)
    /\ phase = "visit" =>
          \A name \in {LabelL, LabelM} : \A k \in Declarations(name) :
              Cardinality(Declarations(name)) = 1 =>
                  /\ name \in DOMAIN labels_indexes
                  /\ labels_indexes[name] = AddressOf(k)
                  /\ \A i \in DOMAIN links :
                        links[i].name = name =>
                            links[i].bound /\ links[i].address = AddressOf(k)

C8_Witness ==
    /\ Cardinality(Declarations(LabelL)) = 1
    /\ \E i, j \in DOMAIN links : \E k \in Declarations(LabelL) :
          /\ links[i].at < k /\ k < links[j].at
          /\ links[i].name = LabelL /\ links[j].name = LabelL
          /\ links[i].address = links[j].address
          /\ links[i].address > origin

\* statement k refers to a label that no statement declares
IsUnbound(k) == IsLabelReference(k) /\ Declarations(statements[k].arg.name) = {}

\* the bytes an instruction contributes: the opcode and its operand
EmittedLength(k) ==
    IF ~IsInstruction(k) THEN 0
    ELSE LET node == statements[k].arg.node IN
         CASE node = "None" -> 1
           [] node \in {"Number8", "ZeroPage", "ZeroPageIndexed", "IndirectX", "IndirectY"} -> 2
           [] node \in {"Absolute", "AsoluteIndexed", "AbsoluteIndirect"} -> 3
           [] node = "Label" -> IF lookup(statements[k]).mode = "Relative" THEN 2 ELSE 3

\* C9: with a reference to a label that no statement declares, compile()
\* never returns a byte sequence; code generation never gets past that
\* instruction, fails there in the label lookup, and emits nothing for it.
C9_UndeclaredLabelIsFatal ==
    \A k \in DOMAIN statements :
        (phase \in {"index", "visit"} /\ IsUnbound(k)) =>
            /\ status # "done"
            /\ vi < k
            /\ Len(program) = Sum(EmittedLength, 1, vi)
            /\ (phase = "visit" /\ vi = k - 1 /\ status = "panic") => panic_at = "get"
            /\ panic_at = "get" => phase = "visit"

C9_Witness ==
    /\ status = "panic" /\ panic_at = "get" /\ phase = "visit"
    /\ vi = 2 /\ IsUnbound(3)
    /\ Len(program) = 4

\* the operand bytes of a literal operand
LiteralBytes(a) ==
    CASE a.node = "None" -> <<>>
      [] a.node \in {"Number8", "ZeroPage", "ZeroPageIndexed", "IndirectX", "IndirectY"} ->
            << a.val >>
      [] a.node \in {"Absolute", "AsoluteIndexed", "AbsoluteIndirect"} ->
            << a.val % 256, a.val \div 256 >>

\* C10: visiting an instruction whose operand is a literal (or absent)
\* appends the opcode byte, then one byte holding the value for an
\* immediate, zero-page or indirect-indexed operand, the low byte then the
\* high byte for an absolute or absolute-indirect operand, and nothing for
\* no operand.
C10_LiteralOperandBytes ==
    [][ (phase = "visit" /\ vi' = vi + 1 /\ IsInstruction(vi') /\ ~IsLabelReference(vi')) =>
            program' = program \o << lookup(statements[vi']).opcode >>
                               \o LiteralBytes(statements[vi'].arg) ]_vars

C10_Witness ==
    /\ status = "done" /\ Len(statements) = 3
    /\ statements[1].arg = AbsoluteIndirect(43707)
    /\ statements[2].arg = IndirectX(255)
    /\ statements[3].arg = NoArg /\ IsInstruction(3)
    /\ program = << 108, 187, 170, 161, 255, 234 >>

Max(S) == CHOOSE x \in S : \A y \in S : y <= x

\* the declarations of name among the first k statements
DeclarationsUpTo(name, k) == {d \in Declarations(name) : d <= k}

\* C11: indexing never fails on a label statement, declared before or not;
\* the symbol table holds, for every name, the address of its last
\* declaration among the statements indexed so far, and once indexing is
\* complete every reference to a name declared more than once is linked
\* against the address of its last declaration in the program.
C11_LastDeclarationWins ==
    /\ (phase = "index" /\ status = "panic") =>
           (ii < Len(statements) /\ IsInstruction(ii + 1))
    /\ phase \in {"index", "visit"} =>
           \A name \in {LabelL, LabelM} :
               IF DeclarationsUpTo(name, ii) = {}
               THEN name \notin DOMAIN labels_indexes
               ELSE /\ name \in DOMAIN labels_indexes
                    /\ labels_indexes[name] = AddressOf(Max(DeclarationsUpTo(name, ii)))
    /\ \A i \in DOMAIN links :
           Cardinality(Declarations(links[i].name)) > 1 =>
               /\ links[i].bound
               /\ links[i].address = AddressOf(Max(Declarations(links[i].name)))

C11_Witness ==
    /\ status = "done"
    /\ Declarations(LabelL) = {1, 3}
    /\ AddressOf(3) # AddressOf(1)
    /\ \E i \in DOMAIN links :
          /\ links[i].at = 2 /\ links[i].name = LabelL
          /\ links[i].address = AddressOf(3)
          /\ links[i].panic = ""

(***************************************************************************)
(* Linker::link called on its own (it is pub): a symbol table as           *)
(* Linker::index leaves it, then calls with any instruction.               *)
(***************************************************************************)
\* the variants of Mode that get_addresing_mode names
Modes ==
    { "Implicit", "Immediate", "ZeroPage", "ZeroPageX", "ZeroPageY", "Absolute",
      "AbsoluteX", "AbsoluteY", "Indirect", "IndirectX", "IndirectY", "Relative" }

\* the instructions handed to link: it reads their mode and len only
LinkInstructions ==
    { [found |-> TRUE, opcode |-> 0, mode |-> mode, len |-> len] :
          mode \in Modes, len \in {2, 3} }

\* addresses a label is bound to: the origin of main.rs and 0xAABB
LinkAddresses == {1536, 43707}

\* values of asm_program_counter
LinkCounters == {1536, 1539}

InitLink ==
    /\ overflow_checks \in BOOLEAN
    /\ units = <<>>
    /\ text = <<>>
    /\ position = 0
    /\ ret = [kind |-> "none", tok |-> NoToken]
    /\ tokens = <<>>
    /\ call_pos = 0
    /\ current_token = TEof
    /\ statements = <<>>
    /\ origin = 1536
    /\ \E address \in LinkAddresses : labels_indexes = insert(<<>>, LabelL, address)
    /\ linker_pc = origin
    /\ asm_pc = origin
    /\ program = <<>>
    /\ phase = "link"
    /\ ii = 0
    /\ vi = 0
    /\ status = "running"
    /\ panic_at = ""
    /\ pc_trace = <<>>
    /\ links = <<>>

\* one call of Linker::link; a panic ends the program
LinkCall ==
    /\ phase = "link"
    /\ status = "running"
    /\ Len(links) < MaxLinkCalls
    /\ \E name \in {LabelL, LabelM}, instruction \in LinkInstructions,
          asm_program_counter \in LinkCounters :
          \E r \in {link(labels_indexes, name, instruction, asm_program_counter,
                         overflow_checks)} :
             /\ links' = Append(links,
                    [ at |-> Len(links) + 1, name |-> name, pc |-> asm_program_counter,
                      mode |-> instruction.mode, len |-> instruction.len,
                      bound |-> name \in DOMAIN labels_indexes,
                      address |-> get(labels_indexes, name).val,
                      panic |-> r.panic, bytes |-> r.bytes ])
             /\ IF r.panic # "" THEN Halt(r.panic) ELSE UNCHANGED << status, panic_at >>
    /\ UNCHANGED << overflow_checks, units, origin, labels_indexes, linker_pc, asm_pc,
                    program, ii, vi, pc_trace, phase >>
    /\ UNCHANGED lexer_vars
    /\ UNCHANGED parser_vars

NextLink == LinkCall

SpecLink == InitLink /\ [][NextLink]_vars

\* C12: a link call for a bound label and an instruction of mode Absolute
\* returns two bytes, the low byte then the high byte of the label's
\* address; for an instruction of a mode that is neither Relative nor
\* Absolute the call fails fatally and returns no byte.
C12_LinkAbsoluteOrFatal ==
    \A i \in DOMAIN links :
        links[i].bound =>
            /\ links[i].mode = "Absolute" =>
                   /\ links[i].panic = ""
                   /\ links[i].bytes = << links[i].address % 256, links[i].address \div 256 >>
            /\ links[i].mode \notin {"Relative", "Absolute"} =>
                   /\ links[i].panic # ""
                   /\ links[i].bytes = <<>>
                   /\ status = "panic"
                   /\ i = Len(links)

C12_Witness ==
    /\ phase = "link" /\ Len(links) = 2
    /\ links[1].mode = "Absolute" /\ links[1].address = origin
    /\ links[1].bytes = << 0, 6 >>
    /\ links[2].mode = "ZeroPageX" /\ links[2].bound
    /\ links[2].panic = "link: unexpected mode" /\ status = "panic"

(***************************************************************************)
(* compile() from a source text: programs of up to MaxLines lines.         *)
(***************************************************************************)
HexFF == <<"F", "F">>

Hex7 == <<"7">>

\* the line `M ($v,X)`
IndirectXLine(mnemonic, v) == mnemonic \o <<SP, "(", "$">> \o v \o <<",", "X", ")">>

Lines ==
    { <<>>,
      <<SP>>,
      <<";", SP, "c">>,
      NOP,
      NOP \o <<SP, ";", "c">>,
      <<"l", ":">>,
      BNE \o <<SP, "l">>,
      IndirectXLine(LDA, HexFF),
      IndirectXLine(LDA, Hex7),
      LDA \o <<SP, "(", "$", "0", "F", ")", ",", "Y">>,
      STA \o <<SP, "$", "0", "2", "0", "0">>,
      LDA \o <<SP, "#", "$", "1", "0">> }

\* the lines of a program, each but the last ended by a newline
RECURSIVE Join(_)
Join(ls) ==
    IF Len(ls) = 0 THEN <<>>
    ELSE IF Len(ls) = 1 THEN ls[1]
    ELSE ls[1] \o <<NL>> \o Join(Tail(ls))

InitCompile ==
    /\ overflow_checks \in BOOLEAN
    /\ units \in SeqsUpTo(Lines, MaxLines) \ {<<>>}
    /\ text = Join(units)
    /\ position = 0
    /\ ret = [kind |-> "none", tok |-> NoToken]
    /\ tokens = <<>>
    /\ call_pos = 0
    /\ current_token = NoToken
    /\ statements = <<>>
    /\ origin = 1536
    /\ labels_indexes = <<>>
    /\ linker_pc = 0
    /\ asm_pc = 0
    /\ program = <<>>
    /\ phase = "new"
    /\ ii = 0
    /\ vi = 0
    /\ status = "running"
    /\ panic_at = ""
    /\ pc_trace = <<>>
    /\ links = <<>>

NextCompile ==
    AsmNew \/ Parse \/ StatementsTurn \/ IndexStep \/ IndexDone \/ VisitStep \/ Return

SpecCompile == InitCompile /\ [][NextCompile]_vars

\* Parser::statements run to its end: [ok, statements].  A parse that has
\* produced more statements than the text has characters no longer
\* consumes input and never ends: it counts as not ok.
RECURSIVE statements_loop(_, _, _, _)
statements_loop(t, chk, ps, stmts) ==
    IF Len(stmts) > Len(t) THEN [ok |-> FALSE, statements |-> stmts]
    ELSE Bind(statements_turn(t, chk, ps, stmts), LAMBDA r :
         IF ~r.ps.ok THEN [ok |-> FALSE, statements |-> r.statements]
         ELSE IF r.break THEN [ok |-> TRUE, statements |-> r.statements]
         ELSE statements_loop(t, chk, r.ps, r.statements))

\* Parser::new(text).parse(): [ok, statements]
parse(t, chk) ==
    Bind(advance(t, chk, [pos |-> 0, cur |-> NoToken, ok |-> TRUE]), LAMBDA ps :
    IF ~ps.ok THEN [ok |-> FALSE, statements |-> <<>>]
    ELSE IF get_token_type(ps.cur) \in {"Text", "Symbol"}
    THEN statements_loop(t, chk, ps, <<>>)
    ELSE [ok |-> TRUE, statements |-> <<>>])

FromSource == phase \in {"new", "parse", "statements", "index", "visit"} /\ units # <<>>

Parsed == phase \in {"index", "visit"}

\* C3: the one-line source `LDA ($v,X)`, v a hexadecimal literal of one or
\* two digits, parses to the single instruction LDA with the operand
\* IndirectX(v) and assembles to the opcode followed by the byte v.
C3_IndirectXLine ==
    \A v \in {HexFF, Hex7} :
        (FromSource /\ units = << IndirectXLine(LDA, v) >>) =>
            /\ status # "panic"
            /\ Parsed => statements = << Instruction(LDA, IndirectX(NumeralValue(v, 16, 0))) >>
            /\ status = "done" => program = << 161, NumeralValue(v, 16, 0) >>

\* a line that is empty, holds only spaces and tabs, or holds only a comment
AddsNoStatement(line) ==
    LET p == FirstNonBlank(line, 0) IN p = Len(line) \/ CharAt(line, p) = ";"

KeptLines == SelectSeq(units, LAMBDA line : ~AddsNoStatement(line))

\* C6: a program parses to the statements of the same program without its
\* empty and comment-only lines: if that program parses, so does this one,
\* and to the same statement sequence.  (Programs ending in a space or a
\* tab are left to the claim about whitespace at the end of the input.)
C6_EmptyLinesAddNothing ==
    (FromSource /\ (text = <<>> \/ text[Len(text)] \notin {SP, TAB})) =>
        \A kept \in {parse(Join(KeptLines), overflow_checks)} :
        kept.ok =>
            /\ ~(status = "panic" /\ panic_at \in {"Parser::new", "Parser::statements"})
            /\ Parsed => statements = kept.statements

====
